---- MODULE Spec2Model ----
(***************************************************************************)
(* Model of the ETL pipeline for formulation alarm logs:                   *)
(*   extract   src/src/extract/file_reader.py   (FileReader)               *)
(*   transform src/src/transform/log_parser.py  (LogParser)                *)
(*   load      src/src/load/database.py         (DatabaseLoader)           *)
(* Text is modelled as TLA+ strings, one character per position, so that   *)
(* the regular expressions, the substring tests and strip() are computed   *)
(* character by character.  Python's None is the empty sequence.           *)
(***************************************************************************)
EXTENDS Integers, Sequences, FiniteSets, TLC

MaxLines == 3        \* lines in the files of one run, all together
MaxBytes == 3        \* bytes of a file found on disk
MaxChars == 3        \* characters of a text written to a file
MaxRows == 3         \* rows of a DataFrame given to load_dataframe or group_alarm_sequences
MaxBatch == 2        \* the batch sizes tried (PERFORMANCE_CONFIG['batch_size'], scaled down)
MaxCalls == 2        \* calls made on one DatabaseLoader
MaxFiles == 4        \* names in the source directory

VARIABLES
    line,             \* parse_line: the input line
    record,           \* parse_line: <<>> before the call, <<result>> after it
    file_infos,       \* parse_multiple_files: the FileInfo list given
    df_consolidated,  \* parse_multiple_files: <<>> before the call, <<rows>> after
    statistics,       \* get_statistics: <<>> before the call, <<result>> after it
    df_given,         \* group_alarm_sequences: the DataFrame given
    df_sorted,        \* group_alarm_sequences: <<>> before the call, <<rows>> after
    disk,             \* read_file: the file at filepath, [exists, bytes]
    written,          \* <<>>, or <<[encoding, content]>> when the file was written as text
    file_info,        \* read_file: <<>> before the call, <<result>> after it
    source_directory, \* FileReader.source_directory: what is at that path
    files,            \* list_files: <<>> before the call, <<result>> after it
    all_files,        \* read_all_files: <<>> before the call, <<result>> after it
    db,               \* the database: table name -> [schema, rows]
    batch_size,       \* DatabaseLoader.batch_size
    calls,            \* calls made so far; the clock of created_at / execution_date
    last,             \* the last call: its name, arguments, batches written, return value
    failures          \* history: <<return value, rows written>> of each load a write failed in

parserVars == <<line, record, file_infos, df_consolidated, statistics, df_given, df_sorted>>
readerVars == <<disk, written, file_info, source_directory, files, all_files>>
loaderVars == <<db, batch_size, calls, last, failures>>
vars == <<parserVars, readerVars, loaderVars>>

None == <<>>

\* a local variable: its right-hand side v is evaluated once, when it is
\* assigned, and F is what follows the assignment
Assign(v, F(_)) == CHOOSE r \in {F(x) : x \in {v}} : TRUE

-----------------------------------------------------------------------------
(* Characters and Python string primitives                                 *)

Digit == {"0", "1", "2", "3", "4", "5", "6", "7", "8", "9"}

\* str.isspace / regex \s, restricted to the whitespace the inputs use
Space == {" ", "\t", "\n", "\r"}

Char(s, i) == SubSeq(s, i, i)

\* Python's `sub in s`
Contains(s, sub) ==
    \E i \in 1..(Len(s) - Len(sub) + 1) : SubSeq(s, i, i + Len(sub) - 1) = sub

\* s.startswith(sub, i-1): the literal `sub` of a pattern at position i
LiteralAt(s, i, sub) ==
    i >= 1 /\ i + Len(sub) - 1 <= Len(s) /\ SubSeq(s, i, i + Len(sub) - 1) = sub

RECURSIVE ScanIn(_, _, _)
\* greedy X+ / X*: first position >= i whose character is not in S
ScanIn(s, i, S) ==
    IF i <= Len(s) /\ Char(s, i) \in S THEN ScanIn(s, i + 1, S) ELSE i

RECURSIVE ScanNotIn(_, _, _)
\* greedy [^X]+: first position >= i whose character is in S
ScanNotIn(s, i, S) ==
    IF i <= Len(s) /\ Char(s, i) \notin S THEN ScanNotIn(s, i + 1, S) ELSE i

RECURSIVE LStrip(_)
LStrip(s) == IF Len(s) > 0 /\ Char(s, 1) \in Space
             THEN LStrip(SubSeq(s, 2, Len(s))) ELSE s

RECURSIVE RStrip(_)
RStrip(s) == IF Len(s) > 0 /\ Char(s, Len(s)) \in Space
             THEN RStrip(SubSeq(s, 1, Len(s) - 1)) ELSE s

\* str.strip()
Strip(s) == RStrip(LStrip(s))

DigitValue(c) == CHOOSE d \in 0..9 : Char("0123456789", d + 1) = c

RECURSIVE ToInt(_)
\* int(s) for a string of digits
ToInt(s) == IF Len(s) = 0 THEN 0
            ELSE 10 * ToInt(SubSeq(s, 1, Len(s) - 1)) + DigitValue(Char(s, Len(s)))

AllDigits(s, i, j) == j <= Len(s) /\ \A k \in i..j : Char(s, k) \in Digit

-----------------------------------------------------------------------------
(* FileInfo (filepath is left out: it is the name in the one directory)    *)

\* characters of names and fields, in the order of their code points
Alphabet == " .0123456789ABCDEFGHIJKLMNOPQRSTUVWXYZ_abcdefghijklmnopqrstuvwxyz"

\* the rank of the code point of c among those of Alphabet
Ord(c) == CHOOSE i \in 1..Len(Alphabet) : Char(Alphabet, i) = c

RECURSIVE StrLT(_, _)
\* a < b for two str: by code point, a proper prefix first
StrLT(a, b) ==
    IF b = "" THEN FALSE
    ELSE IF a = "" THEN TRUE
    ELSE IF Char(a, 1) # Char(b, 1) THEN Ord(Char(a, 1)) < Ord(Char(b, 1))
    ELSE StrLT(SubSeq(a, 2, Len(a)), SubSeq(b, 2, Len(b)))

FileInfo(name, lines, encoding) ==
    [filename |-> name, lines |-> lines, encoding |-> encoding, line_count |-> Len(lines)]

-----------------------------------------------------------------------------
(* FileReader: the codecs.  A file is a sequence of bytes (0..255), a text *)
(* a sequence of code points.  decode gives [ok, text], encode [ok, bytes]. *)

encodings == <<"utf-8", "latin-1", "iso-8859-1", "cp1252", "windows-1252", "cp850">>

Fail == [ok |-> FALSE, value |-> <<>>]
Ok(v) == [ok |-> TRUE, value |-> v]

IsCont(b) == b >= 128 /\ b <= 191

\* the code point and the length of the UTF-8 sequence that starts bs, or
\* <<-1, 0>> when bs starts with no valid sequence (strict decoding: no
\* overlong forms, no surrogates, nothing above U+10FFFF)
Utf8First(bs) ==
    LET b1 == bs[1]
        n  == Len(bs)
    IN  IF b1 < 128 THEN <<b1, 1>>
        ELSE IF b1 >= 194 /\ b1 <= 223
        THEN IF n >= 2 /\ IsCont(bs[2])
             THEN <<(b1 - 192) * 64 + (bs[2] - 128), 2>> ELSE <<-1, 0>>
        ELSE IF b1 >= 224 /\ b1 <= 239
        THEN IF /\ n >= 3 /\ IsCont(bs[2]) /\ IsCont(bs[3])
                /\ (b1 = 224 => bs[2] >= 160)
                /\ (b1 = 237 => bs[2] <= 159)
             THEN <<(b1 - 224) * 4096 + (bs[2] - 128) * 64 + (bs[3] - 128), 3>>
             ELSE <<-1, 0>>
        ELSE IF b1 >= 240 /\ b1 <= 244
        THEN IF /\ n >= 4 /\ IsCont(bs[2]) /\ IsCont(bs[3]) /\ IsCont(bs[4])
                /\ (b1 = 240 => bs[2] >= 144)
                /\ (b1 = 244 => bs[2] <= 143)
             THEN <<(b1 - 240) * 262144 + (bs[2] - 128) * 4096
                    + (bs[3] - 128) * 64 + (bs[4] - 128), 4>>
             ELSE <<-1, 0>>
        ELSE <<-1, 0>>

RECURSIVE Utf8Decode(_)
Utf8Decode(bs) ==
    IF bs = <<>> THEN Ok(<<>>)
    ELSE Assign(Utf8First(bs), LAMBDA f :
         IF f[2] = 0 THEN Fail
         ELSE Assign(Utf8Decode(SubSeq(bs, f[2] + 1, Len(bs))), LAMBDA rest :
              IF rest.ok THEN Ok(<<f[1]>> \o rest.value) ELSE Fail))

Utf8EncodeChar(c) ==
    IF c < 128 THEN Ok(<<c>>)
    ELSE IF c < 2048 THEN Ok(<<192 + (c \div 64), 128 + (c % 64)>>)
    ELSE IF c >= 55296 /\ c <= 57343 THEN Fail
    ELSE IF c < 65536
    THEN Ok(<<224 + (c \div 4096), 128 + ((c \div 64) % 64), 128 + (c % 64)>>)
    ELSE Ok(<<240 + (c \div 262144), 128 + ((c \div 4096) % 64),
              128 + ((c \div 64) % 64), 128 + (c % 64)>>)

\* cp1252, bytes 128..159 (0 where the codec defines no character); every
\* other byte is the code point of the same number
Cp1252High == <<8364, 0, 8218, 402, 8222, 8230, 8224, 8225, 710, 8240, 352, 8249, 338, 0, 381, 0,
                0, 8216, 8217, 8220, 8221, 8226, 8211, 8212, 732, 8482, 353, 8250, 339, 0, 382, 376>>

Cp1252DecodeByte(b) ==
    IF b >= 128 /\ b <= 159
    THEN (IF Cp1252High[b - 127] = 0 THEN Fail ELSE Ok(<<Cp1252High[b - 127]>>))
    ELSE Ok(<<b>>)

Cp1252EncodeChar(c) ==
    IF c < 128 \/ (c >= 160 /\ c <= 255) THEN Ok(<<c>>)
    ELSE IF c # 0 /\ \E i \in 1..Len(Cp1252High) : Cp1252High[i] = c
    THEN Ok(<<127 + (CHOOSE i \in 1..Len(Cp1252High) : Cp1252High[i] = c)>>)
    ELSE Fail

\* cp850, the bytes above 127 that the files of this model hold, as
\* <<byte, code point>>; the bytes below 128 are ASCII
Cp850High == {<<128, 199>>, <<129, 252>>, <<130, 233>>, <<131, 226>>, <<169, 174>>,
              <<172, 188>>, <<184, 169>>, <<194, 9516>>, <<195, 9500>>, <<199, 195>>,
              <<226, 212>>, <<233, 218>>}

Cp850DecodeByte(b) ==
    IF b < 128 THEN Ok(<<b>>)
    ELSE Ok(<<(CHOOSE p \in Cp850High : p[1] = b)[2]>>)

Cp850EncodeChar(c) ==
    IF c < 128 THEN Ok(<<c>>)
    ELSE IF \E p \in Cp850High : p[2] = c
    THEN Ok(<<(CHOOSE p \in Cp850High : p[2] = c)[1]>>)
    ELSE Fail

Latin1EncodeChar(c) == IF c <= 255 THEN Ok(<<c>>) ELSE Fail

DecodeByte(b, encoding) ==
    IF encoding \in {"latin-1", "iso-8859-1"} THEN Ok(<<b>>)
    ELSE IF encoding \in {"cp1252", "windows-1252"} THEN Cp1252DecodeByte(b)
    ELSE Cp850DecodeByte(b)

EncodeChar(c, encoding) ==
    IF encoding = "utf-8" THEN Utf8EncodeChar(c)
    ELSE IF encoding \in {"latin-1", "iso-8859-1"} THEN Latin1EncodeChar(c)
    ELSE IF encoding \in {"cp1252", "windows-1252"} THEN Cp1252EncodeChar(c)
    ELSE Cp850EncodeChar(c)

RECURSIVE DecodeBytes(_, _)
DecodeBytes(bs, encoding) ==
    IF bs = <<>> THEN Ok(<<>>)
    ELSE Assign(DecodeByte(Head(bs), encoding), LAMBDA c :
         IF ~ c.ok THEN Fail
         ELSE Assign(DecodeBytes(Tail(bs), encoding), LAMBDA rest :
              IF rest.ok THEN Ok(c.value \o rest.value) ELSE Fail))

\* bytes.decode(encoding), errors='strict'
decode(bs, encoding) ==
    IF encoding = "utf-8" THEN Utf8Decode(bs) ELSE DecodeBytes(bs, encoding)

RECURSIVE encode(_, _)
\* str.encode(encoding), errors='strict'
encode(text, encoding) ==
    IF text = <<>> THEN Ok(<<>>)
    ELSE Assign(EncodeChar(Head(text), encoding), LAMBDA b :
         IF ~ b.ok THEN Fail
         ELSE Assign(encode(Tail(text), encoding), LAMBDA rest :
              IF rest.ok THEN Ok(b.value \o rest.value) ELSE Fail))

-----------------------------------------------------------------------------
(* FileReader: read_file                                                   *)

LF == 10
CR == 13

RECURSIVE UniversalNewlines(_)
\* open(..., 'r') with newline=None: "\r\n" and "\r" are read as "\n"
UniversalNewlines(text) ==
    IF text = <<>> THEN <<>>
    ELSE IF Head(text) = CR
    THEN <<LF>> \o UniversalNewlines(
            IF Len(text) >= 2 /\ text[2] = LF THEN SubSeq(text, 3, Len(text)) ELSE Tail(text))
    ELSE <<Head(text)>> \o UniversalNewlines(Tail(text))

RECURSIVE SplitLines(_, _)
\* the lines of a text, each with the "\n" that ends it (the last one may
\* have none); cur is the line being read
SplitLines(text, cur) ==
    IF text = <<>> THEN (IF cur = <<>> THEN <<>> ELSE <<cur>>)
    ELSE IF Head(text) = LF THEN <<Append(cur, LF)>> \o SplitLines(Tail(text), <<>>)
    ELSE SplitLines(Tail(text), Append(cur, Head(text)))

\* f.readlines() on the decoded text
readlines(text) == SplitLines(UniversalNewlines(text), <<>>)

\* with open(filepath, 'r', encoding=encoding) as f: lines = f.readlines()
\* [ok, value]: not ok when open or the decoding raises
open_readlines(d, encoding) ==
    IF ~ d.exists THEN Fail
    ELSE Assign(decode(d.bytes, encoding), LAMBDA text :
         IF text.ok THEN Ok(readlines(text.value)) ELSE Fail)

RECURSIVE TryEncodings(_, _, _, _)
\* the for loop of read_file from the k-th encoding of encs on
TryEncodings(filename, d, encs, k) ==
    IF k > Len(encs) THEN None
    ELSE Assign(open_readlines(d, encs[k]), LAMBDA lines :
         IF lines.ok THEN FileInfo(filename, lines.value, encs[k])
         ELSE TryEncodings(filename, d, encs, k + 1))

Reverse(seq) == [i \in 1..Len(seq) |-> seq[Len(seq) + 1 - i]]

\* a read_file that tries the encodings from the last one to the first
read_file_reversed(filename, d) == TryEncodings(filename, d, Reverse(encodings), 1)

\* a read_file whose list of encodings lacks latin-1 and iso-8859-1
read_file_without_latin1(filename, d) ==
    TryEncodings(filename, d, <<"utf-8", "cp1252", "windows-1252", "cp850">>, 1)

\* the FileInfo of the file d at filename, or None
read_file(filename, d) == TryEncodings(filename, d, encodings, 1)

RECURSIVE encodings_tried(_, _, _)
\* the encodings the for loop of read_file opens the file d with, from the
\* k-th of encs on: it goes to the next one after a failure only
encodings_tried(d, encs, k) ==
    IF k > Len(encs) THEN <<>>
    ELSE IF open_readlines(d, encs[k]).ok THEN <<encs[k]>>
    ELSE <<encs[k]>> \o encodings_tried(d, encs, k + 1)

\* EXTRACT_CONFIG['file_extension']
file_extension == ".log"

\* str.upper() on ASCII letters
upper(str) ==
    LET lower == "abcdefghijklmnopqrstuvwxyz"
        UPPER == "ABCDEFGHIJKLMNOPQRSTUVWXYZ"
        Up(c) == IF \E i \in 1..26 : Char(lower, i) = c
                 THEN Char(UPPER, CHOOSE i \in 1..26 : Char(lower, i) = c)
                 ELSE c
        Conv[i \in 0..Len(str)] == IF i = 0 THEN "" ELSE Conv[i - 1] \o Up(Char(str, i))
    IN  Conv[Len(str)]

\* Path.suffix: the name from its last dot on, when that dot is neither
\* the first nor the last character
suffix(name) ==
    LET dots == {i \in 1..Len(name) : Char(name, i) = "."}
        last_dot == CHOOSE i \in dots : \A j \in dots : j <= i
    IN  IF dots = {} THEN ""
        ELSE IF last_dot = 1 \/ last_dot = Len(name) THEN ""
        ELSE SubSeq(name, last_dot, Len(name))

RECURSIVE sort(_)
\* files.sort() on paths of one directory: by name
sort(names) ==
    IF names = {} THEN <<>>
    ELSE LET least == CHOOSE x \in names : \A y \in names \ {x} : StrLT(x, y)
         IN  <<least>> \o sort(names \ {least})

\* a list_files without the test of exists() and without the try: iterdir()
\* on a path that is no directory raises
list_files_unguarded(directory) ==
    IF directory.kind # "dir" THEN [raised |-> TRUE, value |-> <<>>]
    ELSE [raised |-> FALSE,
          value |-> sort({f \in DOMAIN directory.entries :
                            /\ directory.entries[f].is_file
                            /\ upper(suffix(f)) = upper(file_extension)})]

\* [raised, value]: value is the list returned; raised, that an exception
\* left the method instead.  iterdir() on a path that is a file raises
\* NotADirectoryError, which the except clause turns into [].
list_files(directory) ==
    IF directory.kind # "dir" THEN [raised |-> FALSE, value |-> <<>>]
    ELSE [raised |-> FALSE,
          value |-> sort({f \in DOMAIN directory.entries :
                            /\ directory.entries[f].is_file
                            /\ upper(suffix(f)) = upper(file_extension)})]

RECURSIVE ReadUntilFailure(_, _)
ReadUntilFailure(directory, paths) ==
    IF paths = <<>> THEN <<>>
    ELSE Assign(read_file(Head(paths), directory.entries[Head(paths)]), LAMBDA info :
             IF info # None THEN <<info>> \o ReadUntilFailure(directory, Tail(paths))
             ELSE <<>>)

RECURSIVE ReadEach(_, _)
\* the loop of read_all_files: the FileInfo of each path read_file can read
ReadEach(directory, paths) ==
    IF paths = <<>> THEN <<>>
    ELSE Assign(read_file(Head(paths), directory.entries[Head(paths)]), LAMBDA info :
             (IF info # None THEN <<info>> ELSE <<>>) \o ReadEach(directory, Tail(paths)))

\* a read_all_files that stops at the first file it cannot read
read_all_files_until_failure(directory) ==
    Assign(list_files(directory), LAMBDA listed :
        IF listed.raised THEN [raised |-> TRUE, value |-> <<>>, opened |-> <<>>]
        ELSE [raised |-> FALSE,
              value |-> ReadUntilFailure(directory, listed.value),
              opened |-> listed.value])

\* [raised, value, opened]: opened is the paths read_file was called with
read_all_files(directory) ==
    Assign(list_files(directory), LAMBDA listed :
        IF listed.raised THEN [raised |-> TRUE, value |-> <<>>, opened |-> <<>>]
        ELSE IF listed.value = <<>> THEN [raised |-> FALSE, value |-> <<>>, opened |-> <<>>]
        ELSE [raised |-> FALSE,
              value |-> ReadEach(directory, listed.value),
              opened |-> listed.value])

-----------------------------------------------------------------------------
(* LogParser: configuration                                                *)

filters == <<"CFN", "OK", "acknowledged">>

-----------------------------------------------------------------------------
(* LogParser: the two regular expressions, matched as re.match does        *)
(* (anchored at the start, greedy; no alternative of either pattern needs  *)
(* backtracking, because each run is delimited by a character outside it)  *)

\* (\d{4}-\d{2}-\d{2}\s+\d{2}:\d{2}:\d{2},\d+)\s+\[([^\]]+)\]\s+(\S+)\s+
\* the part the two patterns share: [matched, groups, rest], rest being the
\* position that follows the last \s+
PatternHead(s) ==
    LET b == ScanIn(s, 11, Space)          \* start of the time
        c == ScanIn(s, b + 9, Digit)       \* end of the timestamp + 1
        d == ScanIn(s, c, Space)           \* the "["
        e == ScanNotIn(s, d + 1, {"]"})    \* the "]"
        f == ScanIn(s, e + 1, Space)       \* start of the alarm token
        g == ScanNotIn(s, f, Space)        \* end of the alarm token + 1
        h == ScanIn(s, g, Space)           \* what follows
        ok == /\ AllDigits(s, 1, 4) /\ LiteralAt(s, 5, "-")
              /\ AllDigits(s, 6, 7) /\ LiteralAt(s, 8, "-")
              /\ AllDigits(s, 9, 10)
              /\ b > 11
              /\ AllDigits(s, b, b + 1) /\ LiteralAt(s, b + 2, ":")
              /\ AllDigits(s, b + 3, b + 4) /\ LiteralAt(s, b + 5, ":")
              /\ AllDigits(s, b + 6, b + 7) /\ LiteralAt(s, b + 8, ",")
              /\ c > b + 9
              /\ d > c /\ LiteralAt(s, d, "[")
              /\ e > d + 1 /\ LiteralAt(s, e, "]")
              /\ f > e + 1
              /\ g > f
              /\ h > g
    IN  IF ok
        THEN [matched |-> TRUE,
              groups |-> <<SubSeq(s, 1, c - 1), SubSeq(s, d + 1, e - 1), SubSeq(s, f, g - 1)>>,
              rest |-> h]
        ELSE [matched |-> FALSE, groups |-> None, rest |-> 0]

\* re.match(PATTERN_FULL, s): the groups (timestamp, pc_id, alarm), or None
PATTERN_FULL(s) == PatternHead(s).groups

\* re.match(PATTERN_ACK, s): the head, then ALARM\s+is\s+acknowledged.*
PATTERN_ACK(s) ==
    LET m == PatternHead(s)
        i == ScanIn(s, m.rest + 5, Space)
        j == ScanIn(s, i + 2, Space)
    IN  IF /\ m.matched
           /\ LiteralAt(s, m.rest, "ALARM")
           /\ i > m.rest + 5 /\ LiteralAt(s, i, "is")
           /\ j > i + 2 /\ LiteralAt(s, j, "acknowledged")
        THEN m.groups ELSE None

-----------------------------------------------------------------------------
(* LogParser: timestamps                                                   *)

NaT == <<>>

IsLeap(y) == (y % 4 = 0 /\ y % 100 # 0) \/ y % 400 = 0

DaysInMonth(y, m) ==
    IF m = 2 THEN (IF IsLeap(y) THEN 29 ELSE 28)
    ELSE IF m \in {4, 6, 9, 11} THEN 30 ELSE 31

\* pd.to_datetime(timestamp, format='%Y-%m-%d %H:%M:%S,%f') on a string the
\* patterns captured: the point in time <<Y, M, D, h, m, s, nanoseconds>>, or
\* NaT when the conversion raises (a field out of range, more fractional
\* digits than %f takes, a year outside Timestamp's range)
\* a conversion that gives the epoch for a timestamp it cannot convert
to_datetime_epoch(ts) ==
    LET b  == ScanIn(ts, 11, Space)
        Y  == ToInt(SubSeq(ts, 1, 4))
        M  == ToInt(SubSeq(ts, 6, 7))
        D  == ToInt(SubSeq(ts, 9, 10))
        hh == ToInt(SubSeq(ts, b, b + 1))
        mm == ToInt(SubSeq(ts, b + 3, b + 4))
        ss == ToInt(SubSeq(ts, b + 6, b + 7))
        fs == SubSeq(ts, b + 9, Len(ts))
    IN  IF /\ Y > 1677 /\ Y < 2262
           /\ M \in 1..12
           /\ D \in 1..DaysInMonth(Y, M)
           /\ hh <= 23 /\ mm <= 59 /\ ss <= 59
           /\ Len(fs) <= 9
        THEN <<Y, M, D, hh, mm, ss, ToInt(fs) * 10 ^ (9 - Len(fs))>>
        ELSE <<1970, 1, 1, 0, 0, 0, 0>>

to_datetime(ts) ==
    LET b  == ScanIn(ts, 11, Space)
        Y  == ToInt(SubSeq(ts, 1, 4))
        M  == ToInt(SubSeq(ts, 6, 7))
        D  == ToInt(SubSeq(ts, 9, 10))
        hh == ToInt(SubSeq(ts, b, b + 1))
        mm == ToInt(SubSeq(ts, b + 3, b + 4))
        ss == ToInt(SubSeq(ts, b + 6, b + 7))
        fs == SubSeq(ts, b + 9, Len(ts))
    IN  IF /\ Y > 1677 /\ Y < 2262
           /\ M \in 1..12
           /\ D \in 1..DaysInMonth(Y, M)
           /\ hh <= 23 /\ mm <= 59 /\ ss <= 59
           /\ Len(fs) <= 9
        THEN <<Y, M, D, hh, mm, ss, ToInt(fs) * 10 ^ (9 - Len(fs))>>
        ELSE NaT

-----------------------------------------------------------------------------
(* LogParser: classification of one line                                   *)

determine_type(l) ==
    IF Contains(l, "ALARM is acknowledged") THEN "ACK"
    ELSE IF Contains(l, "CFN") THEN "CFN"
    ELSE IF Contains(l, "OK") THEN "OK"
    ELSE "N/A"

\* a record whose alarm is taken from the device field
_create_record_alarm_from_pc(source_file, timestamp, pc_id, alarm, alarm_type, original_line) ==
    Assign(to_datetime(timestamp), LAMBDA dt :
        [arquivo_origem |-> source_file,
         timestamp      |-> timestamp,
         datetime       |-> dt,
         pc_id          |-> pc_id,
         alarm          |-> Strip(pc_id),
         type           |-> alarm_type,
         linha_original |-> original_line])

_create_record(source_file, timestamp, pc_id, alarm, alarm_type, original_line) ==
    Assign(to_datetime(timestamp), LAMBDA dt :
        [arquivo_origem |-> source_file,
         timestamp      |-> timestamp,
         datetime       |-> dt,
         pc_id          |-> pc_id,
         alarm          |-> Strip(alarm),
         type           |-> alarm_type,
         linha_original |-> original_line])

\* a parse_line that passes determine_type's result on for both patterns
parse_line_typed_ack(l, source_file) ==
    IF ~ \E k \in 1..Len(filters) : Contains(l, filters[k])
    THEN None
    ELSE Assign(Strip(l), LAMBDA line_stripped :
         Assign(determine_type(line_stripped), LAMBDA alarm_type :
         Assign(PATTERN_ACK(line_stripped), LAMBDA ack :
             IF ack # None
             THEN _create_record(source_file, ack[1], ack[2], ack[3], alarm_type, line_stripped)
             ELSE Assign(PATTERN_FULL(line_stripped), LAMBDA full :
                 IF full # None
                 THEN _create_record(source_file, full[1], full[2], full[3],
                                     alarm_type, line_stripped)
                 ELSE None))))

\* the parsed record, or None
parse_line(l, source_file) ==
    IF ~ \E k \in 1..Len(filters) : Contains(l, filters[k])
    THEN None
    ELSE Assign(Strip(l), LAMBDA line_stripped :
         Assign(determine_type(line_stripped), LAMBDA alarm_type :
         Assign(PATTERN_ACK(line_stripped), LAMBDA ack :
             IF ack # None
             THEN _create_record(source_file, ack[1], ack[2], ack[3], "ACK", line_stripped)
             ELSE Assign(PATTERN_FULL(line_stripped), LAMBDA full :
                 IF full # None
                 THEN _create_record(source_file, full[1], full[2], full[3],
                                     alarm_type, line_stripped)
                 ELSE None))))


-----------------------------------------------------------------------------
(* LogParser: files and consolidation.  A DataFrame is the sequence of its *)
(* rows in index order.                                                    *)

RECURSIVE parse_file(_, _)
\* the records of the lines parse_line accepts, in line order
parse_file(lines, source_file) ==
    IF lines = <<>> THEN <<>>
    ELSE Assign(parse_line(Head(lines), source_file), LAMBDA rec :
             (IF rec # None THEN <<rec>> ELSE <<>>) \o parse_file(Tail(lines), source_file))

RECURSIVE concat(_)
\* pd.concat(dataframes, ignore_index=True)
concat(dataframes) ==
    IF dataframes = <<>> THEN <<>>
    ELSE Head(dataframes) \o concat(Tail(dataframes))

\* Timestamp comparison, a < b, on <<Y, M, D, h, m, s, ns>>
TimeLT(a, b) ==
    \E k \in 1..7 : a[k] < b[k] /\ \A j \in 1..(k - 1) : a[j] = b[j]

RECURSIVE SortedOrders(_, _)
\* the orders in which a sort that is not stable may leave the rows idx, all of
\* known time: each time the next row is one of those with the least time
SortedOrders(df, idx) ==
    IF idx = {} THEN {<<>>}
    ELSE LET least == {i \in idx : \A j \in idx : ~ TimeLT(df[j].datetime, df[i].datetime)}
         IN  UNION {{<<df[i]>> \o rest : rest \in SortedOrders(df, idx \ {i})} : i \in least}

RECURSIVE SelectRows(_, _)
\* the rows whose time is (is not) NaT, in index order
SelectRows(df, nat) ==
    IF df = <<>> THEN <<>>
    ELSE (IF (Head(df).datetime = NaT) = nat THEN <<Head(df)>> ELSE <<>>)
         \o SelectRows(Tail(df), nat)

\* a sort that loses the rows of absent time
sort_values_dropna(df) ==
    UNION {SortedOrders(known, 1..Len(known)) : known \in {SelectRows(df, FALSE)}}

\* df.sort_values('datetime').reset_index(drop=True): kind is the default
\* 'quicksort', which does not promise to keep rows of equal time in their
\* order, so every outcome is possible; na_position is the default 'last',
\* and the NaT rows are appended in index order
sort_values(df) ==
    {sorted \o absent : sorted \in UNION {SortedOrders(known, 1..Len(known)) :
                                             known \in {SelectRows(df, FALSE)}},
                        absent \in {SelectRows(df, TRUE)}}

RECURSIVE ParsedFrames(_)
\* the loop of parse_multiple_files: the non-empty per-file DataFrames
ParsedFrames(infos) ==
    IF infos = <<>> THEN <<>>
    ELSE Assign(parse_file(Head(infos).lines, Head(infos).filename), LAMBDA df :
             (IF df # <<>> THEN <<df>> ELSE <<>>) \o ParsedFrames(Tail(infos)))

\* the DataFrames parse_multiple_files may return
parse_multiple_files(infos) ==
    Assign(ParsedFrames(infos), LAMBDA dataframes :
        IF dataframes = <<>> THEN {<<>>}
        ELSE Assign(concat(dataframes), LAMBDA df : sort_values(df)))

-----------------------------------------------------------------------------
(* LogParser: grouping and statistics                                      *)

\* a sorts before b in a datetime column, na_position='last'
TimeBefore(a, b) == a # NaT /\ (b = NaT \/ TimeLT(a, b))

\* row a sorts before row b by ['pc_id', 'alarm', 'datetime']
GroupKeyLT(a, b) ==
    \/ StrLT(a.pc_id, b.pc_id)
    \/ /\ a.pc_id = b.pc_id
       /\ \/ StrLT(a.alarm, b.alarm)
          \/ (a.alarm = b.alarm /\ TimeBefore(a.datetime, b.datetime))

RECURSIVE InsertByGroupKey(_, _)
\* r put behind the rows of sorted that do not sort after it
InsertByGroupKey(sorted, r) ==
    IF sorted = <<>> THEN <<r>>
    ELSE IF GroupKeyLT(r, Head(sorted)) THEN <<r>> \o sorted
    ELSE <<Head(sorted)>> \o InsertByGroupKey(Tail(sorted), r)

RECURSIVE LexSort(_)
\* df.sort_values(['pc_id', 'alarm', 'datetime']).reset_index(drop=True):
\* with several columns pandas sorts with a lexsort, which is stable
LexSort(rows) ==
    IF rows = <<>> THEN <<>>
    ELSE InsertByGroupKey(LexSort(SubSeq(rows, 1, Len(rows) - 1)), rows[Len(rows)])

\* a grouping that sorts by 'datetime' alone
group_alarm_sequences_by_time(rows) ==
    IF rows = <<>> THEN rows
    ELSE CHOOSE out \in sort_values(rows) : TRUE

group_alarm_sequences(rows) ==
    IF rows = <<>> THEN rows
    ELSE LexSort(rows)

\* df[column].value_counts().to_dict()
value_counts(rows, column) ==
    [v \in {rows[i][column] : i \in 1..Len(rows)} |->
        Cardinality({i \in 1..Len(rows) : rows[i][column] = v})]

\* df[column].nunique()
nunique(rows, column) == Cardinality({rows[i][column] : i \in 1..Len(rows)})

\* the number of the day of a Timestamp, counted from 0001-01-01
Ordinal(t) ==
    LET y == t[1] - 1
        BeforeMonth[m \in 1..12] == IF m = 1 THEN 0
                                    ELSE BeforeMonth[m - 1] + DaysInMonth(t[1], m - 1)
    IN  y * 365 + (y \div 4) - (y \div 100) + (y \div 400) + BeforeMonth[t[2]] + t[3]

\* (period_end - period_start).days for period_start <= period_end
TimedeltaDays(start, end) ==
    Ordinal(end) - Ordinal(start)
      - (IF TimeLT(<<0, 0, 0, end[4], end[5], end[6], end[7]>>,
                   <<0, 0, 0, start[4], start[5], start[6], start[7]>>) THEN 1 ELSE 0)

\* df['datetime'].min(): the least of the times that are not NaT
MinTime(rows) ==
    CHOOSE t \in {rows[i].datetime : i \in 1..Len(rows)} \ {NaT} :
        \A i \in 1..Len(rows) : rows[i].datetime = NaT \/ ~ TimeLT(rows[i].datetime, t)

\* df['datetime'].max()
MaxTime(rows) ==
    CHOOSE t \in {rows[i].datetime : i \in 1..Len(rows)} \ {NaT} :
        \A i \in 1..Len(rows) : rows[i].datetime = NaT \/ ~ TimeLT(t, rows[i].datetime)

\* a get_statistics without the tests of df.empty and of the columns: on a
\* DataFrame without rows, which has no columns, df['alarm'] raises KeyError
get_statistics_unguarded(rows) ==
    IF rows = <<>> THEN [raised |-> TRUE, value |-> None]
    ELSE [raised |-> FALSE,
          value |-> [total_records |-> Len(rows),
                     unique_alarms |-> nunique(rows, "alarm"),
                     unique_pc_ids |-> nunique(rows, "pc_id"),
                     records_by_type |-> value_counts(rows, "type"),
                     records_by_file |-> value_counts(rows, "arquivo_origem")]
                    @@ (IF \E i \in 1..Len(rows) : rows[i].datetime # NaT
                        THEN [period_start |-> MinTime(rows),
                              period_end |-> MaxTime(rows),
                              period_days |-> TimedeltaDays(MinTime(rows), MaxTime(rows))]
                        ELSE <<>>)]

\* [raised, value]: value is the dict returned; raised, that an exception
\* left the method instead
get_statistics(rows) ==
    IF rows = <<>> THEN [raised |-> FALSE, value |-> <<>>]
    ELSE [raised |-> FALSE,
          value |-> [total_records |-> Len(rows),
                     unique_alarms |-> nunique(rows, "alarm"),
                     unique_pc_ids |-> nunique(rows, "pc_id"),
                     records_by_type |-> value_counts(rows, "type"),
                     records_by_file |-> value_counts(rows, "arquivo_origem")]
                    @@ (IF \E i \in 1..Len(rows) : rows[i].datetime # NaT
                        THEN [period_start |-> MinTime(rows),
                              period_end |-> MaxTime(rows),
                              period_days |-> TimedeltaDays(MinTime(rows), MaxTime(rows))]
                        ELSE <<>>)]

-----------------------------------------------------------------------------
(* DatabaseLoader.  A table is [schema, rows]: the rows in insertion order *)
(* (the synthetic id is the position), the schema the name of the ORM      *)
(* model that created the table, or "frame" for a table that to_sql        *)
(* created from a DataFrame's columns.                                     *)

TableNames == {"alarm_logs", "etl_statistics"}

\* Base.metadata.create_all on a new database file
_create_tables == [t \in TableNames |-> [schema |-> t, rows |-> <<>>]]

Min(a, b) == IF a <= b THEN a ELSE b

RECURSIVE ChunkLoop(_, _, _, _)
\* the loop of to_sql's insert over i = first .. chunks - 1:
\*   start_i = i * chunksize; end_i = min((i + 1) * chunksize, nrows)
\*   if start_i >= end_i: break
ChunkLoop(rows, chunksize, i, chunks) ==
    IF i >= chunks \/ i * chunksize >= Min((i + 1) * chunksize, Len(rows)) THEN <<>>
    ELSE <<SubSeq(rows, i * chunksize + 1, Min((i + 1) * chunksize, Len(rows)))>>
         \o ChunkLoop(rows, chunksize, i + 1, chunks)

\* an insert that writes the full chunks only
ChunksFullOnly(rows, chunksize) == ChunkLoop(rows, chunksize, 0, Len(rows) \div chunksize)

\* the batches to_sql writes with chunksize=...: chunks = nrows // chunksize + 1
Chunks(rows, chunksize) == ChunkLoop(rows, chunksize, 0, (Len(rows) \div chunksize) + 1)

\* a to_sql that starts from an empty table whatever if_exists says
TableBeforeInsertAlwaysNew(table, if_exists) == [schema |-> "frame", rows |-> <<>>]

\* to_sql, if_exists: 'replace' drops the table and creates it from the
\* DataFrame's columns, 'append' inserts into the table as it is
TableBeforeInsert(table, if_exists) ==
    IF if_exists = "replace" THEN [schema |-> "frame", rows |-> <<>>] ELSE table

\* df_copy.to_sql(table_name, engine, if_exists=..., index=False,
\*                chunksize=batch_size, method='multi')
\* The batches are inserted one after the other in ONE transaction, which is
\* committed after the last batch and rolled back when an insert raises; the
\* DROP and CREATE of 'replace' are not part of it.  fail_at = 0: no insert
\* fails; fail_at = k: the k-th insert raises.  An insert into a table that
\* lacks the DataFrame's columns (the ORM's etl_statistics) raises.
\* Gives [db, raised, writes], writes being the batches inserted.
to_sql(database, frame, table_name, if_exists, chunksize, fail_at) ==
    Assign(TableBeforeInsert(database[table_name], if_exists), LAMBDA table :
    Assign(Chunks(frame, chunksize), LAMBDA batches :
    Assign(IF table.schema = "etl_statistics" THEN 1 ELSE fail_at, LAMBDA failing :
        IF failing = 0
        THEN [db |-> [database EXCEPT ![table_name] =
                        [schema |-> table.schema, rows |-> table.rows \o concat(batches)]],
              raised |-> FALSE,
              writes |-> batches]
        ELSE [db |-> [database EXCEPT ![table_name] = table],
              raised |-> TRUE,
              writes |-> SubSeq(batches, 1, failing - 1)])))

\* df_copy['created_at'] = dt.now(timezone.utc)
WithCreatedAt(df, now) ==
    [i \in 1..Len(df) |->
        [arquivo_origem |-> df[i].arquivo_origem, timestamp |-> df[i].timestamp,
         datetime |-> df[i].datetime, pc_id |-> df[i].pc_id, alarm |-> df[i].alarm,
         type |-> df[i].type, linha_original |-> df[i].linha_original,
         created_at |-> now]]

\* [db, returned, raised, writes]
load_dataframe(database, size, df, table_name, if_exists, fail_at, now) ==
    IF df = <<>>
    THEN [db |-> database, returned |-> FALSE, raised |-> FALSE, writes |-> <<>>]
    ELSE Assign(to_sql(database, WithCreatedAt(df, now), table_name, if_exists, size, fail_at),
                LAMBDA r :
             [db |-> r.db, returned |-> ~ r.raised, raised |-> r.raised, writes |-> r.writes])

\* dict.get(key, default)
Get(dict, key, default) == IF key \in DOMAIN dict THEN dict[key] ELSE default

EmptyDict == <<>>

\* a save_etl_statistics whose failed row stays in the session and is
\* written all the same
save_etl_statistics_no_rollback(database, stats, execution_time, status, fails, now) ==
    IF database["etl_statistics"].schema # "etl_statistics"
    THEN [db |-> database, returned |-> FALSE]
    ELSE [db |-> [database EXCEPT !["etl_statistics"].rows =
                    Append(@, [execution_date |-> now,
                               total_files |-> Get(stats, "total_files", 0),
                               total_records |-> Get(stats, "total_records", 0),
                               cfn_count |-> Get(Get(stats, "records_by_type", EmptyDict), "CFN", 0),
                               ok_count |-> Get(Get(stats, "records_by_type", EmptyDict), "OK", 0),
                               ack_count |-> Get(Get(stats, "records_by_type", EmptyDict), "ACK", 0),
                               period_start |-> Get(stats, "period_start", None),
                               period_end |-> Get(stats, "period_end", None),
                               execution_time_seconds |-> execution_time \div 1000,
                               status |-> status])],
          returned |-> ~ fails]

\* a save_etl_statistics in one transaction with the load before it: its
\* rollback takes the rows of that load with it
save_etl_statistics_shared_transaction(database, stats, execution_time, status, fails, now) ==
    IF fails \/ database["etl_statistics"].schema # "etl_statistics"
    THEN [db |-> [t \in DOMAIN database |->
                    [schema |-> database[t].schema,
                     rows |-> SelectSeq(database[t].rows,
                                        LAMBDA r : ~ ("created_at" \in DOMAIN r
                                                      /\ r["created_at"] = now - 1))]],
          returned |-> FALSE]
    ELSE [db |-> [database EXCEPT !["etl_statistics"].rows =
                    Append(@, [execution_date |-> now,
                               total_files |-> Get(stats, "total_files", 0),
                               total_records |-> Get(stats, "total_records", 0),
                               cfn_count |-> Get(Get(stats, "records_by_type", EmptyDict), "CFN", 0),
                               ok_count |-> Get(Get(stats, "records_by_type", EmptyDict), "OK", 0),
                               ack_count |-> Get(Get(stats, "records_by_type", EmptyDict), "ACK", 0),
                               period_start |-> Get(stats, "period_start", None),
                               period_end |-> Get(stats, "period_end", None),
                               execution_time_seconds |-> execution_time \div 1000,
                               status |-> status])],
          returned |-> TRUE]

\* [db, returned]; fails = the INSERT or the commit raises, as it does when
\* the table has not the ORM's columns
save_etl_statistics(database, stats, execution_time, status, fails, now) ==
    IF fails \/ database["etl_statistics"].schema # "etl_statistics"
    THEN [db |-> database, returned |-> FALSE]
    ELSE Assign([execution_date |-> now,
                 total_files |-> Get(stats, "total_files", 0),
                 total_records |-> Get(stats, "total_records", 0),
                 cfn_count |-> Get(Get(stats, "records_by_type", EmptyDict), "CFN", 0),
                 ok_count |-> Get(Get(stats, "records_by_type", EmptyDict), "OK", 0),
                 ack_count |-> Get(Get(stats, "records_by_type", EmptyDict), "ACK", 0),
                 period_start |-> Get(stats, "period_start", None),
                 period_end |-> Get(stats, "period_end", None),
                 execution_time_seconds |-> execution_time \div 1000,
                 status |-> status], LAMBDA etl_stat :
         [db |-> [database EXCEPT !["etl_statistics"].rows = Append(@, etl_stat)],
          returned |-> TRUE])

\* [db, returned]
clear_table(database, table_name, fails) ==
    IF fails THEN [db |-> database, returned |-> FALSE]
    ELSE [db |-> [database EXCEPT ![table_name].rows = <<>>], returned |-> TRUE]

-----------------------------------------------------------------------------
(* Input lines: every combination of a timestamp, a device, an alarm token *)
(* and a remainder, with and without surrounding whitespace                *)

Timestamps == {"2025-10-05 07:12:33,4",      \* well formed
               "2025-13-05 07:12:33,4",      \* month 13: matches \d{2}, does not convert
               "2025-10-05 07:12:33"}        \* no fraction: matches neither pattern

Devices == {"[PC510A00]", "[ ]", "[]"}

Alarms == {"FMDOS01", "FMOK1"}

Remainders == {"CFN ALARM Erro dosagem",
               "OK A_OK Erro dosagem",
               "CFN MSG. OK",
               "ALARM is acknowledged by PC520A00::FORM ACK",
               "ALARM  is acknowledged by OP CFN",
               "x ALARM is acknowledged OK",
               "was acknowledged by OP",
               "ALARM Erro dosagem",
               ""}

Lines == {pre \o ts \o " " \o dev \o " " \o al \o " " \o rest \o post :
            pre \in {"", " "}, ts \in Timestamps, dev \in Devices,
            al \in Alarms, rest \in Remainders, post \in {"", "\n"}}

-----------------------------------------------------------------------------
(* Specification of the parser alone: one line in, one parse_line call     *)

\* the components a specification leaves alone
IdleParser == /\ line = "" /\ record = <<>> /\ file_infos = <<>> /\ df_consolidated = <<>>
              /\ statistics = <<>> /\ df_given = <<>> /\ df_sorted = <<>>
IdleReader == /\ disk = [exists |-> FALSE, bytes |-> <<>>] /\ written = <<>> /\ file_info = <<>>
              /\ source_directory = [kind |-> "absent", entries |-> <<>>]
              /\ files = <<>> /\ all_files = <<>>
IdleLoader == /\ db = <<>> /\ batch_size = 0 /\ calls = 0
              /\ last = [op |-> "none"] /\ failures = {}

InitParse ==
    /\ line \in Lines
    /\ record = <<>>
    /\ file_infos = <<>>
    /\ df_consolidated = <<>>
    /\ statistics = <<>> /\ df_given = <<>> /\ df_sorted = <<>>
    /\ IdleReader
    /\ IdleLoader

ParseLine ==
    /\ record = <<>>
    /\ record' = <<parse_line(line, "A.log")>>
    /\ UNCHANGED <<line, file_infos, df_consolidated, statistics, df_given, df_sorted, readerVars, loaderVars>>

NextParse == ParseLine

SpecParse == InitParse /\ [][NextParse]_vars

\* parse_line was called and returned an event
Produced == record # <<>> /\ record[1] # None

\* C1: every event parse_line produces carries one of the stages ACK, CFN, OK
C1_StageRecognized == Produced => record[1].type \in {"ACK", "CFN", "OK"}

\* parse_line was called
Parsed == record # <<>>

\* the line, without the whitespace around it, has the acknowledgment shape
AckShape == PATTERN_ACK(Strip(line)) # None

\* the line, without the whitespace around it, has the general shape
FullShape == PATTERN_FULL(Strip(line)) # None

\* C11: a line of the acknowledgment shape yields an event of stage ACK,
\* also when it contains the marker CFN or OK
C11_AckShapeYieldsAck ==
    (Parsed /\ AckShape) => (record[1] # None /\ record[1].type = "ACK")

\* an acknowledgment with more than one blank after ALARM, holding CFN too
C11_Witness ==
    /\ Parsed /\ AckShape
    /\ Contains(line, "CFN") /\ ~ Contains(line, "ALARM is acknowledged")
    /\ record[1].type = "ACK"

\* C12: a line of the general shape and not of the acknowledgment shape
\* yields exactly one event, of stage CFN when it contains CFN, of stage OK
\* when it contains OK and not CFN
C12_MarkerPriority ==
    (Parsed /\ FullShape /\ ~ AckShape) =>
        /\ Contains(line, "CFN") => (record[1] # None /\ record[1].type = "CFN")
        /\ (Contains(line, "OK") /\ ~ Contains(line, "CFN")) =>
               (record[1] # None /\ record[1].type = "OK")

\* ts, of the shape the patterns capture, names no time of the calendar
NotATime(ts) ==
    \/ ToInt(SubSeq(ts, 6, 7)) \notin 1..12
    \/ ToInt(SubSeq(ts, 9, 10)) \notin 1..31
    \/ ToInt(SubSeq(ts, 12, 13)) > 23
    \/ ToInt(SubSeq(ts, 15, 16)) > 59
    \/ ToInt(SubSeq(ts, 18, 19)) > 59

\* the timestamp the patterns capture from the line cannot be converted
TimestampUnparseable == FullShape /\ NotATime(PATTERN_FULL(Strip(line))[1])

\* C13: a line whose captured timestamp does not convert still yields its
\* event, with the time absent and every other field set
C13_UnparseableTimestampKept ==
    (Parsed /\ TimestampUnparseable /\ \E k \in 1..Len(filters) : Contains(line, filters[k])) =>
        /\ record[1] # None
        /\ record[1].datetime = None
        /\ record[1].timestamp = PATTERN_FULL(Strip(line))[1]
        /\ record[1].pc_id = PATTERN_FULL(Strip(line))[2]
        /\ record[1].alarm = PATTERN_FULL(Strip(line))[3]
        /\ record[1].type = (IF AckShape THEN "ACK" ELSE determine_type(Strip(line)))
        /\ record[1].arquivo_origem = "A.log"
        /\ record[1].linha_original = Strip(line)

\* an event of month 13 was kept, without a time
C13_Witness ==
    /\ Produced
    /\ record[1].timestamp = "2025-13-05 07:12:33,4"
    /\ record[1].datetime = None
    /\ record[1].type = "CFN"

\* C14: the alarm code of every event is non-empty and has no whitespace at
\* either end
C14_AlarmCodeTrimmedNonEmpty ==
    Produced =>
        /\ record[1].alarm # ""
        /\ Char(record[1].alarm, 1) \notin Space
        /\ Char(record[1].alarm, Len(record[1].alarm)) \notin Space

\* an event of a line whose device field is blank
C14_Witness ==
    /\ Produced
    /\ record[1].pc_id = " "
    /\ record[1].alarm = "FMOK1"


-----------------------------------------------------------------------------
(* Specification of the consolidation: a list of files in, one             *)
(* parse_multiple_files call                                               *)

FileNames == <<"A.log", "B.log">>

ConsLines == {"2025-10-05 07:12:33,4 [PC510A00] FMDOS01 CFN ALARM Erro dosagem\n",
              "2025-10-05 07:12:33,4 [PC510A00] FMDOS01 OK A_OK Erro dosagem\n",
              "2025-10-05 07:12:30,95 [PC520A00] FMDOS02 ALARM is acknowledged by OP ACK\n",
              "2025-13-05 07:12:33,4 [PC510A00] FMDOS01 CFN ALARM Erro dosagem\n",
              "2025-10-05 07:12:31,0 [PC510A00] WATCHDOG alive\n"}

FileContents == UNION {[1..n -> ConsLines] : n \in 0..MaxLines}

\* the first n files; their lines are any MaxLines lines or fewer, cut into
\* n files at any places
InitConsolidate ==
    /\ \E n \in 0..Len(FileNames) : \E all \in FileContents :
       \E cut \in [0..n -> 0..Len(all)] :
          /\ cut[0] = 0
          /\ cut[n] = Len(all)
          /\ \A k \in 1..n : cut[k - 1] <= cut[k]
          /\ file_infos = [k \in 1..n |->
                FileInfo(FileNames[k], SubSeq(all, cut[k - 1] + 1, cut[k]), "utf-8")]
    /\ df_consolidated = <<>>
    /\ statistics = <<>>
    /\ line = ""
    /\ record = <<>>
    /\ df_given = <<>> /\ df_sorted = <<>>
    /\ IdleReader
    /\ IdleLoader

ParseMultipleFiles ==
    /\ df_consolidated = <<>>
    /\ \E out \in parse_multiple_files(file_infos) : df_consolidated' = <<out>>
    /\ UNCHANGED <<file_infos, statistics, line, record, df_given, df_sorted, readerVars, loaderVars>>

GetStatistics ==
    /\ df_consolidated # <<>>
    /\ statistics = <<>>
    /\ statistics' = <<get_statistics(df_consolidated[1])>>
    /\ UNCHANGED <<file_infos, df_consolidated, line, record, df_given, df_sorted,
                   readerVars, loaderVars>>

NextConsolidate == ParseMultipleFiles \/ GetStatistics

SpecConsolidate == InitConsolidate /\ [][NextConsolidate]_vars

Consolidated == df_consolidated # <<>>

RECURSIVE PerFileEvents(_)
\* the per-file event collections of parse_file, one after the other in the
\* order of the files
PerFileEvents(infos) ==
    IF infos = <<>> THEN <<>>
    ELSE parse_file(Head(infos).lines, Head(infos).filename) \o PerFileEvents(Tail(infos))

\* a sorts before b by event_time, an absent time after every known one
KeyLT(a, b) == a # NaT /\ (b = NaT \/ TimeLT(a, b))

\* the stable sort of df by event_time: row i goes after the rows that sort
\* before it and after the rows of the same time that precede it
StableSortByTime(df) ==
    LET n == Len(df)
        Rank(i) == 1 + Cardinality({j \in 1..n :
                        \/ KeyLT(df[j].datetime, df[i].datetime)
                        \/ (~ KeyLT(df[i].datetime, df[j].datetime) /\ j < i)})
    IN  [k \in 1..n |-> df[CHOOSE i \in 1..n : Rank(i) = k]]

\* C7: the consolidated output is the stable sort by event_time of the
\* per-file events concatenated in file order (ties keep their input order)
C7_StableSortByTime ==
    Consolidated => df_consolidated[1] = StableSortByTime(PerFileEvents(file_infos))

Count(df, r) == Cardinality({i \in 1..Len(df) : df[i] = r})

IsPermutation(a, b) ==
    /\ Len(a) = Len(b)
    /\ \A i \in 1..Len(b) : Count(a, b[i]) = Count(b, b[i])

\* C8: the consolidated output holds exactly the events of the per-file
\* collections, each as many times as they do: none dropped, none duplicated
C8_NoEventLostOrDuplicated ==
    Consolidated => IsPermutation(df_consolidated[1], PerFileEvents(file_infos))

\* two files, one of them without any event, the other with an event of
\* absent time that the sort moved behind an event of known time
C8_Witness ==
    /\ Consolidated
    /\ Len(file_infos) = 2
    /\ \E k \in 1..2 : parse_file(file_infos[k].lines, file_infos[k].filename) = <<>>
    /\ Len(df_consolidated[1]) >= 2
    /\ df_consolidated[1][2].datetime = NaT
    /\ df_consolidated[1] # PerFileEvents(file_infos)


\* get_statistics was called
Computed == statistics # <<>>

\* C16 as claimed: an input without events consolidates to an empty
\* collection, and the statistics of an empty collection are returned
\* without an error and hold a total count and per-stage counts, all zero
C16_EmptyInputZeroCountsRecord ==
    /\ (Consolidated /\ PerFileEvents(file_infos) = <<>>) => df_consolidated[1] = <<>>
    /\ (Computed /\ df_consolidated[1] = <<>>) =>
          /\ ~ statistics[1].raised
          /\ "total_records" \in DOMAIN statistics[1].value
          /\ statistics[1].value["total_records"] = 0
          /\ "records_by_type" \in DOMAIN statistics[1].value
          /\ \A t \in {"ACK", "CFN", "OK"} :
                Get(statistics[1].value["records_by_type"], t, 0) = 0

\* C16, amended: an input without events consolidates to an empty
\* collection, and the statistics of an empty collection are returned
\* without an error as an empty record, from which every count reads as zero
\* when an absent count is read as 0 (as save_etl_statistics reads it)
C16_EmptyInputEmptyOutputZeroCounts ==
    /\ (Consolidated /\ PerFileEvents(file_infos) = <<>>) => df_consolidated[1] = <<>>
    /\ (Computed /\ df_consolidated[1] = <<>>) =>
          /\ ~ statistics[1].raised
          /\ statistics[1].value = EmptyDict
          /\ Get(statistics[1].value, "total_records", 0) = 0
          /\ \A t \in {"ACK", "CFN", "OK"} :
                Get(Get(statistics[1].value, "records_by_type", EmptyDict), t, 0) = 0

\* two files with lines and no event among them were consolidated, and the
\* statistics were computed
C16_Witness ==
    /\ Computed
    /\ Len(file_infos) = 2
    /\ file_infos[1].lines # <<>> /\ file_infos[2].lines # <<>>
    /\ df_consolidated[1] = <<>>

-----------------------------------------------------------------------------
(* Specification of the grouping: a DataFrame in, one                      *)
(* group_alarm_sequences call                                              *)

GroupLines == <<"2025-10-05 07:12:33,4 [PC510A00] FMDOS01 CFN ALARM Erro dosagem\n",
                "2025-10-05 07:12:33,4 [PC510A00] FMDOS01 OK A_OK Erro dosagem\n",
                "2025-13-05 07:12:33,4 [PC510A00] FMDOS01 CFN ALARM Erro dosagem\n",
                "2025-13-05 07:12:33,4 [PC510A00] FMDOS01 OK A_OK Erro dosagem\n",
                "2025-10-05 07:12:30,95 [PC510A00] FMDOS00 ALARM is acknowledged by OP\n",
                "2025-10-05 07:12:29,0 [PC520A00] FMDOS01 OK A_OK Erro dosagem\n">>

\* the events of the DataFrames given
GroupEvents == {parse_line(GroupLines[k], "A.log") : k \in 1..Len(GroupLines)}

InitGroup ==
    /\ df_given \in UNION {[1..n -> GroupEvents] : n \in 0..MaxRows}
    /\ df_sorted = <<>>
    /\ line = "" /\ record = <<>> /\ file_infos = <<>> /\ df_consolidated = <<>>
    /\ statistics = <<>>
    /\ IdleReader
    /\ IdleLoader

GroupAlarmSequences ==
    /\ df_sorted = <<>>
    /\ df_sorted' = <<group_alarm_sequences(df_given)>>
    /\ UNCHANGED <<df_given, line, record, file_infos, df_consolidated, statistics,
                   readerVars, loaderVars>>

NextGroup == GroupAlarmSequences

SpecGroup == InitGroup /\ [][NextGroup]_vars

Grouped == df_sorted # <<>>

\* C15: the grouped output is the input reordered, row k of it being row p[k]
\* of the input for a permutation p, sorted by device, alarm and time with
\* absent times last in their group, rows of equal key in input order
C15_GroupingIsStableSortedPermutation ==
    Grouped =>
        \E p \in [1..Len(df_given) -> 1..Len(df_given)] :
            /\ \A i, j \in 1..Len(df_given) : p[i] = p[j] => i = j
            /\ df_sorted[1] = [k \in 1..Len(df_given) |-> df_given[p[k]]]
            /\ \A k \in 1..(Len(df_given) - 1) :
                  /\ ~ GroupKeyLT(df_given[p[k + 1]], df_given[p[k]])
                  /\ ~ GroupKeyLT(df_given[p[k]], df_given[p[k + 1]]) => p[k] < p[k + 1]

\* the grouping moved rows: an event of absent time ends its group and is
\* followed by the events of another device
C15_Witness ==
    /\ Grouped
    /\ Len(df_given) = 3
    /\ df_sorted[1] # df_given
    /\ df_sorted[1][2].datetime = NaT
    /\ df_sorted[1][1].datetime # NaT
    /\ df_sorted[1][3].pc_id # df_sorted[1][2].pc_id

-----------------------------------------------------------------------------
(* Specification of the reader: a file found on disk, or written as text   *)
(* in one of the encodings, then one read_file call                        *)

ByteAlphabet == {10, 13, 97, 129, 169, 195}

TextAlphabet == {10, 97, 169, 195, 233, 8364}

RawFiles == UNION {[1..n -> ByteAlphabet] : n \in 0..MaxBytes}

Texts == UNION {[1..n -> TextAlphabet] : n \in 0..MaxChars}

NoFile == [exists |-> FALSE, bytes |-> <<>>]

InitRead ==
    /\ disk \in {NoFile} \cup {[exists |-> TRUE, bytes |-> b] : b \in RawFiles}
    /\ written = <<>>
    /\ file_info = <<>>
    /\ source_directory = [kind |-> "absent", entries |-> <<>>]
    /\ files = <<>> /\ all_files = <<>>
    /\ IdleParser
    /\ IdleLoader

\* with open(path, 'w', encoding=E, newline='') as f: f.write(C)
WriteFile ==
    /\ ~ disk.exists
    /\ file_info = <<>>
    /\ \E E \in {encodings[k] : k \in 1..Len(encodings)} : \E C \in Texts :
       \E b \in {encode(C, E)} :
          /\ b.ok
          /\ disk' = [exists |-> TRUE, bytes |-> b.value]
          /\ written' = <<[encoding |-> E, content |-> C]>>
    /\ UNCHANGED <<file_info, source_directory, files, all_files, parserVars, loaderVars>>

ReadFile ==
    /\ file_info = <<>>
    /\ file_info' = <<read_file("A.log", disk)>>
    /\ UNCHANGED <<disk, written, source_directory, files, all_files, parserVars, loaderVars>>

NextRead == WriteFile \/ ReadFile

SpecRead == InitRead /\ [][NextRead]_vars

\* open and decoding both succeed
Readable(d, encoding) == d.exists /\ decode(d.bytes, encoding).ok

\* C9: read_file returns the first encoding of the configured list that
\* decodes the whole file, with the lines decoded under it, and returns one
\* whenever some encoding of the list decodes the file
C9_FirstEncodingThatDecodes ==
    file_info # <<>> =>
        /\ (\E k \in 1..Len(encodings) : Readable(disk, encodings[k])) => file_info[1] # None
        /\ file_info[1] # None =>
              \E k \in 1..Len(encodings) :
                 /\ file_info[1].encoding = encodings[k]
                 /\ \A j \in 1..(k - 1) : ~ Readable(disk, encodings[j])
                 /\ Readable(disk, encodings[k])
                 /\ file_info[1].lines = readlines(decode(disk.bytes, encodings[k]).value)

\* a file that is not UTF-8 was read under the second encoding, into two
\* lines or more
C9_Witness ==
    /\ file_info # <<>>
    /\ file_info[1] # None
    /\ file_info[1].encoding = "latin-1"
    /\ file_info[1].line_count >= 2
    /\ Readable(disk, "cp850")

\* C10: a text written to a file in any of the configured encodings is read
\* back by read_file as the lines it was written with
C10_RoundTrip ==
    (written # <<>> /\ file_info # <<>>) =>
        /\ file_info[1] # None
        /\ file_info[1].lines = SplitLines(written[1].content, <<>>)


\* read_file was called
WasRead == file_info # <<>>

\* the candidates read_file tried on the file
Tried == encodings_tried(disk, encodings, 1)

\* C22: a file that can be opened is returned as utf-8 or latin-1, after two
\* attempts at most; None is returned only for a file that cannot be
\* opened; no candidate is tried twice
C22_Utf8OrLatin1 ==
    WasRead =>
        /\ disk.exists =>
              /\ file_info[1] # None
              /\ file_info[1].encoding \in {"utf-8", "latin-1"}
              /\ file_info[1].encoding = Tried[Len(Tried)]
              /\ Len(Tried) <= 2
        /\ file_info[1] = None => (~ disk.exists /\ Tried = encodings)
        /\ \A i, j \in 1..Len(Tried) : Tried[i] = Tried[j] => i = j
        /\ \A i \in 1..Len(Tried) : Tried[i] = encodings[i]

\* a file that is not utf-8 and that cp1252 cannot decode was read as latin-1
\* at the second attempt
C22_Witness ==
    /\ WasRead
    /\ disk.exists
    /\ \E i \in 1..Len(disk.bytes) : disk.bytes[i] = 129
    /\ file_info[1].encoding = "latin-1"
    /\ Tried = <<"utf-8", "latin-1">>

-----------------------------------------------------------------------------
(* Specification of the directory reader: a source directory, then         *)
(* list_files and read_all_files                                           *)

\* the names that may be in the source directory
DirNames == <<"B.LOG", "A.log", "C.txt", "D.log", "E.log">>

\* what may be at a name: a directory, a file that cannot be opened, a file
\* of utf-8 text, a file that is latin-1 text and not utf-8
DirEntries == {[is_file |-> FALSE, exists |-> TRUE, bytes |-> <<>>],
               [is_file |-> TRUE, exists |-> FALSE, bytes |-> <<>>],
               [is_file |-> TRUE, exists |-> TRUE, bytes |-> <<97, 10, 97>>],
               [is_file |-> TRUE, exists |-> TRUE, bytes |-> <<233>>]}

Directories ==
    {[kind |-> "absent", entries |-> <<>>], [kind |-> "file", entries |-> <<>>]}
    \cup {[kind |-> "dir", entries |-> e] :
            e \in UNION {[names -> DirEntries] :
                           names \in SUBSET {DirNames[k] : k \in 1..MaxFiles}}}

InitReadAll ==
    /\ source_directory \in Directories
    /\ files = <<>>
    /\ all_files = <<>>
    /\ disk = [exists |-> FALSE, bytes |-> <<>>] /\ written = <<>> /\ file_info = <<>>
    /\ IdleParser
    /\ IdleLoader

ListFiles ==
    /\ files = <<>>
    /\ files' = <<list_files(source_directory)>>
    /\ UNCHANGED <<source_directory, all_files, disk, written, file_info,
                   parserVars, loaderVars>>

ReadAllFiles ==
    /\ all_files = <<>>
    /\ all_files' = <<read_all_files(source_directory)>>
    /\ UNCHANGED <<source_directory, files, disk, written, file_info,
                   parserVars, loaderVars>>

NextReadAll == ListFiles \/ ReadAllFiles

SpecReadAll == InitReadAll /\ [][NextReadAll]_vars

\* list_files and read_all_files were both called
ListedAndRead == files # <<>> /\ all_files # <<>>

\* the positions in the listing of the files read_file can read
CanRead ==
    {k \in 1..Len(files[1].value) :
        read_file(files[1].value[k], source_directory.entries[files[1].value[k]]) # None}

\* C17: read_all_files returns, without raising, the FileInfo of each listed
\* file that read_file can read and nothing for the others, in the order of
\* the listing
C17_UnreadableFilesSkipped ==
    ListedAndRead =>
        /\ ~ all_files[1].raised
        /\ Len(all_files[1].value) = Cardinality(CanRead)
        /\ \A k \in CanRead :
              all_files[1].value[Cardinality({j \in CanRead : j <= k})]
                = read_file(files[1].value[k], source_directory.entries[files[1].value[k]])

\* three files listed, the first cannot be read, the two behind it were read
C17_Witness ==
    /\ ListedAndRead
    /\ Len(files[1].value) = 3
    /\ CanRead = {2, 3}
    /\ Len(all_files[1].value) = 2
    /\ all_files[1].value[1].filename = files[1].value[2]

\* C18: without a source directory list_files and read_all_files return
\* an empty list, raise nothing and read no file
C18_AbsentDirectoryEmptyResult ==
    source_directory.kind = "absent" =>
        /\ files # <<>> => (~ files[1].raised /\ files[1].value = <<>>)
        /\ all_files # <<>> =>
              /\ ~ all_files[1].raised
              /\ all_files[1].value = <<>>
              /\ all_files[1].opened = <<>>

\* both were called without a source directory
C18_Witness == ListedAndRead /\ source_directory.kind = "absent"

-----------------------------------------------------------------------------
(* Specification of the loader: a new database, then calls of              *)
(* load_dataframe, save_etl_statistics and clear_table in any order        *)

\* the i-th event of the DataFrames loaded
LoadEvent(i) ==
    parse_line("2025-10-05 07:12:3" \o Char("0123456789", i + 1) \o ",4 [PC510A00] FMDOS0"
               \o Char("0123456789", i + 1) \o " CFN ALARM Erro dosagem\n", "A.log")

\* the DataFrames loaded: the first n events
Frames == [n \in 0..MaxRows |-> [i \in 1..n |-> LoadEvent(i)]]

\* the statistics saved
StatsInputs == {EmptyDict,
                [total_files |-> 1, total_records |-> 2,
                 records_by_type |-> [CFN |-> 2]]}

InitLoad ==
    /\ db = _create_tables
    /\ batch_size \in 1..MaxBatch
    /\ calls = 0
    /\ last = [op |-> "none"]
    /\ failures = {}
    /\ IdleParser
    /\ IdleReader

LoadDataframe ==
    /\ calls < MaxCalls
    /\ \E n \in 0..MaxRows, table_name \in TableNames, if_exists \in {"append", "replace"} :
       \E fail_at \in 0..Len(Chunks(Frames[n], batch_size)) :
       \E r \in {load_dataframe(db, batch_size, Frames[n], table_name, if_exists,
                                fail_at, calls + 1)} :
          /\ db' = r.db
          /\ last' = [op |-> "load_dataframe", df |-> Frames[n], table_name |-> table_name,
                      if_exists |-> if_exists, writes |-> r.writes, raised |-> r.raised,
                      returned |-> r.returned]
          /\ failures' = IF r.raised
                         THEN failures \cup {<<r.returned, Len(concat(r.writes))>>}
                         ELSE failures
    /\ calls' = calls + 1
    /\ UNCHANGED <<batch_size, parserVars, readerVars>>

SaveEtlStatistics ==
    /\ calls < MaxCalls
    /\ \E stats \in StatsInputs, fails \in BOOLEAN :
       \E r \in {save_etl_statistics(db, stats, 2700, "success", fails, calls + 1)} :
          /\ db' = r.db
          /\ last' = [op |-> "save_etl_statistics", returned |-> r.returned]
    /\ calls' = calls + 1
    /\ UNCHANGED <<batch_size, failures, parserVars, readerVars>>

ClearTable ==
    /\ calls < MaxCalls
    /\ \E table_name \in TableNames, fails \in BOOLEAN :
       \E r \in {clear_table(db, table_name, fails)} :
          /\ db' = r.db
          /\ last' = [op |-> "clear_table", table_name |-> table_name,
                      returned |-> r.returned]
    /\ calls' = calls + 1
    /\ UNCHANGED <<batch_size, failures, parserVars, readerVars>>

NextLoad == LoadDataframe \/ SaveEtlStatistics \/ ClearTable

SpecLoad == InitLoad /\ [][NextLoad]_vars

Loaded == last.op = "load_dataframe"

\* a batch write of the last load failed after one batch or more was written
FailedPartway == Loaded /\ last.raised /\ last.writes # <<>>

\* C2: the batches written before a failing batch remain in the table
C2_WrittenBatchesRemain ==
    FailedPartway =>
        \A b \in 1..Len(last.writes) : \A i \in 1..Len(last.writes[b]) :
            \E k \in 1..Len(db[last.table_name].rows) :
                db[last.table_name].rows[k] = last.writes[b][i]

\* C3: the value a failed load returns tells how many events were written
\* before the failure: two failures that return the same value wrote the
\* same number of events
C3_FailureCarriesWrittenCount ==
    \A f \in failures, g \in failures :
        (f[2] > 0 /\ g[2] > 0 /\ f[1] = g[1]) => f[2] = g[2]

\* the rows as they were given, without the created_at column
WithoutCreatedAt(rows) ==
    [i \in 1..Len(rows) |->
        [arquivo_origem |-> rows[i].arquivo_origem, timestamp |-> rows[i].timestamp,
         datetime |-> rows[i].datetime, pc_id |-> rows[i].pc_id, alarm |-> rows[i].alarm,
         type |-> rows[i].type, linha_original |-> rows[i].linha_original]]

\* C4: a load of M > 0 events in which no write fails issues ceil(M/B)
\* batches of at most B events, which one after the other are the input
C4_BatchesCoverInputInOrder ==
    (Loaded /\ last.returned) =>
        /\ Len(last.writes) = (Len(last.df) + batch_size - 1) \div batch_size
        /\ \A b \in 1..Len(last.writes) :
              Len(last.writes[b]) >= 1 /\ Len(last.writes[b]) <= batch_size
        /\ WithoutCreatedAt(concat(last.writes)) = last.df

\* three events were loaded in batches of two: a full batch, then the rest
C4_Witness ==
    /\ Loaded /\ last.returned
    /\ batch_size = 2
    /\ Len(last.df) = 3
    /\ Len(last.writes) = 2
    /\ Len(last.writes[2]) = 1

IsPrefix(a, b) == Len(a) <= Len(b) /\ SubSeq(b, 1, Len(a)) = a

\* C5 as claimed: no call other than clear_table removes or changes a row
\* of the event table
C5_AppendOnlyUnlessCleared ==
    [][last'.op # "clear_table" => IsPrefix(db["alarm_logs"].rows, db'["alarm_logs"].rows)]_vars

\* C5, amended: no save_etl_statistics and no load_dataframe with
\* if_exists='append' removes or changes a row of the event table
C5_AppendOnlyUnlessClearedOrReplaced ==
    [][(last'.op = "save_etl_statistics"
          \/ (last'.op = "load_dataframe" /\ last'.if_exists = "append"))
        => IsPrefix(db["alarm_logs"].rows, db'["alarm_logs"].rows)]_vars

\* an appending load added its rows behind the rows of an earlier load
C5_Witness ==
    /\ Loaded /\ last.returned
    /\ last.table_name = "alarm_logs" /\ last.if_exists = "append"
    /\ Len(db["alarm_logs"].rows) > Len(last.df)
    /\ db["alarm_logs"].rows[1].created_at < calls

\* C6: a load of an empty collection writes nothing and returns a value
\* that no load returns in which a write failed
C6_EmptyLoadIsNotAFailure ==
    (Loaded /\ last.df = <<>>) =>
        /\ last.writes = <<>>
        /\ \A f \in failures : f[1] # last.returned


\* the rows of the run-statistics table
StatRows == db["etl_statistics"].rows

\* what a save_etl_statistics step does to the run-statistics table: one
\* row more when it returns True, nothing when it returns False
SaveAddsOneOrNone ==
    last'.op = "save_etl_statistics" =>
        IF last'.returned
        THEN Len(StatRows') = Len(StatRows) + 1 /\ IsPrefix(StatRows, StatRows')
        ELSE StatRows' = StatRows

\* C19 as claimed: a successful save_etl_statistics adds one row and a
\* failed one none, and no save_etl_statistics or load_dataframe changes or
\* removes a row of the run-statistics table
C19_StatisticsRowsKept ==
    [][/\ SaveAddsOneOrNone
       /\ last'.op = "load_dataframe" => IsPrefix(StatRows, StatRows')]_vars

\* C19, amended: ... and no save_etl_statistics and no load_dataframe, other
\* than one that replaces the run-statistics table, changes or removes a row
\* of it
C19_StatisticsRowsKeptUnlessReplaced ==
    [][/\ SaveAddsOneOrNone
       /\ (/\ last'.op = "load_dataframe"
           /\ ~ (last'.table_name = "etl_statistics" /\ last'.if_exists = "replace"))
          => IsPrefix(StatRows, StatRows')]_vars

\* a second run was recorded behind the first, which is as it was
C19_Witness ==
    /\ last.op = "save_etl_statistics" /\ last.returned
    /\ Len(StatRows) = 2
    /\ StatRows[1].execution_date = 1
    /\ StatRows[2].execution_date = 2

IsSuffix(a, b) == Len(a) <= Len(b) /\ SubSeq(b, Len(b) - Len(a) + 1, Len(b)) = a

\* C20: when a load has succeeded and the save_etl_statistics after it
\* fails, the events of the load are still in their table, no run was
\* recorded, and the two calls return different values: True for the load,
\* False for the statistics
C20_StatisticsFailureLeavesEvents ==
    [][(/\ Loaded /\ last.returned
        /\ last'.op = "save_etl_statistics" /\ ~ last'.returned)
       => /\ db'[last.table_name].rows = db[last.table_name].rows
          /\ IsSuffix(concat(last.writes), db'[last.table_name].rows)
          /\ StatRows' = StatRows
          /\ last.returned = TRUE /\ last'.returned = FALSE]_vars

\* the events of a load are in the event table, the statistics after it
\* failed and recorded nothing
C20_Witness ==
    /\ last.op = "save_etl_statistics" /\ ~ last.returned
    /\ calls = 2
    /\ Len(db["alarm_logs"].rows) = 3
    /\ db["alarm_logs"].rows[3].created_at = 1
    /\ StatRows = <<>>

-----------------------------------------------------------------------------
(* Specification of one run: files consolidated, their statistics          *)
(* computed, and saved in a new database                                   *)

RunLines == {"2025-10-05 07:12:33,4 [PC510A00] FMDOS01 CFN ALARM Erro dosagem\n",
             "2025-10-05 07:12:34,0 [PC510A00] FMDOS01 OK A_OK Erro dosagem\n",
             "2025-10-05 07:12:30,95 [PC520A00] FMDOS02 ALARM is acknowledged by OP ACK\n",
             "2025-13-05 07:12:33,4 [PC510A00] FMDOS01 CFN ALARM Erro dosagem\n",
             "2025-10-05 07:12:35,0 [PC510A00] FMDOS01 was acknowledged by OP\n"}

RunContents == UNION {[1..n -> RunLines] : n \in 0..MaxLines}

InitRun ==
    /\ \E n \in 0..Len(FileNames) : \E all \in RunContents :
       \E cut \in [0..n -> 0..Len(all)] :
          /\ cut[0] = 0
          /\ cut[n] = Len(all)
          /\ \A k \in 1..n : cut[k - 1] <= cut[k]
          /\ file_infos = [k \in 1..n |->
                FileInfo(FileNames[k], SubSeq(all, cut[k - 1] + 1, cut[k]), "utf-8")]
    /\ df_consolidated = <<>>
    /\ statistics = <<>>
    /\ line = "" /\ record = <<>> /\ df_given = <<>> /\ df_sorted = <<>>
    /\ db = _create_tables
    /\ batch_size = 0
    /\ calls = 0
    /\ last = [op |-> "none"]
    /\ failures = {}
    /\ IdleReader

RunParseMultipleFiles ==
    /\ df_consolidated = <<>>
    /\ \E out \in parse_multiple_files(file_infos) : df_consolidated' = <<out>>
    /\ UNCHANGED <<file_infos, statistics, line, record, df_given, df_sorted,
                   readerVars, loaderVars>>

RunGetStatistics ==
    /\ df_consolidated # <<>>
    /\ statistics = <<>>
    /\ statistics' = <<get_statistics(df_consolidated[1])>>
    /\ UNCHANGED <<file_infos, df_consolidated, line, record, df_given, df_sorted,
                   readerVars, loaderVars>>

\* loader.save_etl_statistics(stats, execution_time) with the statistics of
\* the run
RunSaveEtlStatistics ==
    /\ statistics # <<>>
    /\ ~ statistics[1].raised
    /\ calls = 0
    /\ \E fails \in BOOLEAN :
       \E r \in {save_etl_statistics(db, statistics[1].value, 2700, "success", fails, 1)} :
          /\ db' = r.db
          /\ last' = [op |-> "save_etl_statistics", returned |-> r.returned]
    /\ calls' = 1
    /\ UNCHANGED <<batch_size, failures, parserVars, readerVars>>

NextRun == RunParseMultipleFiles \/ RunGetStatistics \/ RunSaveEtlStatistics

SpecRun == InitRun /\ [][NextRun]_vars

\* the statistics of the run were saved
RunSaved == last.op = "save_etl_statistics" /\ last.returned

\* C21: in the row saved for a run the counts of the stages add up to the
\* total count
C21_StageCountsAddUp ==
    RunSaved =>
        db["etl_statistics"].rows[1].cfn_count + db["etl_statistics"].rows[1].ok_count
          + db["etl_statistics"].rows[1].ack_count
        = db["etl_statistics"].rows[1].total_records

====
